---- MODULE Spec2Model ----
(***************************************************************************)
(* Wallet ledger and payout request state machine of the MLM backend.      *)
(*                                                                         *)
(* The database holds one Wallet document per user and a collection of     *)
(* Payout documents.  The operations are the Wallet model's methods        *)
(* (addIncome, deductBalance), the wallet detail update route, the payout  *)
(* routes (create, cancel) and the admin payout status route.  Every       *)
(* operation is one atomic step: it reads its documents, runs the handler  *)
(* and persists what the handler saved before it failed or returned.       *)
(*                                                                         *)
(* Money is kept on an integer grid.  JavaScript Numbers are IEEE doubles: *)
(* the product amount * (category / totalIncome) of deductBalance is not   *)
(* exact, and its rounding error may have either sign (in doubles          *)
(* 7 - 25 * (7 / 25) is negative and 15 - 22 * (15 / 22) is positive).     *)
(* The model takes the rounded product to be any grid value within one     *)
(* grid step of the exact quotient.                                        *)
(*                                                                         *)
(* Documents are taken to carry their generated identifiers; timestamps    *)
(* are abstracted to "set" / "null"; free-text fields (notes, bank, crypto *)
(* and UPI details) are left out.                                          *)
(*                                                                         *)
(* Further specifications over the same variables cover two handlers       *)
(* interleaving on one wallet (SpecConc), the transaction routes (SpecTx), *)
(* the admin plan routes (SpecPlan) and the seed script, registration and  *)
(* plan purchase on the referral network (SpecNet), the admin processing   *)
(* seeded payouts (SpecCap), deductBalance on its own (SpecDeduct), the    *)
(* purchase handler by steps (SpecShop), the login route by steps          *)
(* (SpecLogin), the socket presence map (SpecSocket) and the price service *)
(* timers (SpecCrypto).  Each leaves the collections and the process state *)
(* it does not use empty or unchanged.                                     *)
(***************************************************************************)
EXTENDS Integers, FiniteSets, Sequences, TLC

VARIABLES wallets, payouts, last, procs, transactions, users, plans,
          now, sockets, connectedUsers, cryptoService, timers

vars == <<wallets, payouts, last, procs, transactions, users, plans,
          now, sockets, connectedUsers, cryptoService, timers>>

\* The state of the server process outside the database: the clock, the
\* open sockets, the presence map of the socket handler, the fields of the
\* price service and the timers it has scheduled.
runtime == <<now, sockets, connectedUsers, cryptoService, timers>>

\* A process that has just started: no socket, no presence entry, the price
\* service as its constructor leaves it and nothing scheduled.
FreshRuntime ==
  /\ now = 1
  /\ sockets = <<>>
  /\ connectedUsers = <<>>
  /\ cryptoService = [io |-> FALSE, updateInterval |-> 0, running |-> 0]
  /\ timers = <<>>

\* What the operations on the ledger leave alone.
outsideLedger == <<procs, transactions, users, plans, runtime>>
\* What the handlers of the concurrent wallet operations leave alone.
outsideConc == <<transactions, users, plans, runtime>>
\* What the transaction routes leave alone.
outsideTx == <<payouts, procs, users, plans, runtime>>

\* ------------------------------------------------------------------ bounds
\* addIncome is only exercised while the income held by all wallets together
\* stays within this.
MaxBalance == 10
\* The largest income one category holds when deductBalance is exercised on
\* its own.
MaxCategory == 3
\* Sockets that are open at the same time.
NumSockets == 3
\* Calls of startPriceUpdates in one run of the process.
NumStarts == 3
\* The hours the clock runs through and the failed logins that are counted
\* when the login route is exercised.
MaxClock == 4
MaxAttempts == 6
\* Number of Payout documents the collection can hold.
NumPayouts == 1
\* Number of Transaction documents the collection can hold.
NumTransactions == 2
\* Number of Plan documents the collection can hold.
NumPlans == 1
\* Longest levelCommissions list a request carries.
MaxLevels == 2
\* Number of User documents the collection can hold.
NumUsers == 4

\* -------------------------------------------------------------- principals
Users == {"u1", "u2"}
Admin == "admin"
Principals == Users \cup {Admin}

\* userSchema.role
role(p) == IF p = Admin THEN "admin" ELSE "user"

Null == "null"
Timestamp == "set"
\* The calendar day on which the modelled requests are served.
Today == "day1"

\* ---------------------------------------------------------- JS primitives
\* obj[name] read as a condition: a missing property is undefined, which is
\* falsy.
FlagOf(obj, name) == IF name \in DOMAIN obj THEN obj[name] ELSE FALSE

\* Math.max(0, x)
Max0(x) == IF x < 0 THEN 0 ELSE x

\* Variant: every category that holds income is charged the whole amount.
MulRatio_whole(amount, category, totalIncome) ==
  IF category = 0 THEN {0} ELSE {amount}

\* amount * (category / totalIncome) in double arithmetic: exact when the
\* ratio is 0 or 1, otherwise within one grid step of the exact quotient,
\* and never negative (a product of two non-negative doubles).
MulRatio(amount, category, totalIncome) ==
  IF category = 0 THEN {0}
  ELSE IF category = totalIncome THEN {amount}
  ELSE LET q == (amount * category) \div totalIncome
       IN  {x \in (q - 1)..(q + 1) : x >= 0}

\* ------------------------------------------------------------ Wallet model
minWithdrawalDefault == 10
maxWithdrawalPerDayDefault == 1000

\* new Wallet({userId, directIncome, levelIncome, roiIncome, bonusIncome})
NewWallet(d, l, r, b) ==
  [directIncome |-> d, levelIncome |-> l, roiIncome |-> r, bonusIncome |-> b,
   totalBalance |-> 0, totalWithdrawn |-> 0, pendingWithdrawal |-> 0,
   minWithdrawal |-> minWithdrawalDefault,
   maxWithdrawalPerDay |-> maxWithdrawalPerDayDefault,
   todayWithdrawal |-> 0, lastWithdrawalDate |-> Null]

\* virtual availableBalance
availableBalance(w) == w.totalBalance - w.pendingWithdrawal

\* virtual totalIncome
totalIncome(w) == w.directIncome + w.levelIncome + w.roiIncome + w.bonusIncome

\* Variant: the hook stores the document without recomputing totalBalance.
walletPreSave_noRecompute(w) == w

\* walletSchema.pre('save')
walletPreSave(w) ==
  [w EXCEPT !.totalBalance =
     w.directIncome + w.levelIncome + w.roiIncome + w.bonusIncome]

\* The schema's min: 0 validators, run by save() before the pre-save hook.
walletValid(w) ==
  /\ w.directIncome >= 0 /\ w.levelIncome >= 0
  /\ w.roiIncome >= 0 /\ w.bonusIncome >= 0
  /\ w.totalBalance >= 0 /\ w.totalWithdrawn >= 0
  /\ w.pendingWithdrawal >= 0

\* wallet.save(): the document that is stored, or the validation error.
walletSave(w) ==
  IF walletValid(w) THEN [err |-> "none", doc |-> walletPreSave(w)]
  ELSE [err |-> "ValidationError", doc |-> w]

\* Variant: only a negative amount is refused.
invalidAmount_negativeOnly(amount) == amount < 0

\* if (amount <= 0) of addIncome and deductBalance
invalidAmount(amount) == amount <= 0

\* walletSchema.methods.addIncome
addIncome(w, type, amount) ==
  IF invalidAmount(amount) THEN [err |-> "Amount must be positive", doc |-> w]
  ELSE IF type = "direct"
    THEN walletSave([w EXCEPT !.directIncome = @ + amount])
  ELSE IF type = "level"
    THEN walletSave([w EXCEPT !.levelIncome = @ + amount])
  ELSE IF type = "roi"
    THEN walletSave([w EXCEPT !.roiIncome = @ + amount])
  ELSE IF type = "bonus"
    THEN walletSave([w EXCEPT !.bonusIncome = @ + amount])
  ELSE [err |-> "Invalid income type", doc |-> w]

\* Variant: the subtraction without Math.max.
floorCategory_noFloor(category, deduction) == category - deduction

\* The category floor of deductBalance: Math.max(0, category - deduction).
floorCategory(category, deduction) == Max0(category - deduction)

\* Variant: the balance is never found insufficient.
insufficientBalance_never(w, amount) == FALSE

\* if (this.availableBalance < amount) of deductBalance
insufficientBalance(w, amount) == availableBalance(w) < amount

\* walletSchema.methods.deductBalance: the set of results the double
\* arithmetic can give.
deductBalance(w, amount) ==
  IF invalidAmount(amount)
    THEN {[err |-> "Amount must be positive", doc |-> w]}
  ELSE IF insufficientBalance(w, amount)
    THEN {[err |-> "Insufficient balance", doc |-> w]}
  ELSE LET t == totalIncome(w) IN
    IF t > 0
    THEN {walletSave([w EXCEPT
             !.directIncome = floorCategory(w.directIncome, dd),
             !.levelIncome  = floorCategory(w.levelIncome, dl),
             !.roiIncome    = floorCategory(w.roiIncome, dr),
             !.bonusIncome  = floorCategory(w.bonusIncome, db)]) :
            <<dd, dl, dr, db>> \in
               MulRatio(amount, w.directIncome, t)
               \X MulRatio(amount, w.levelIncome, t)
               \X MulRatio(amount, w.roiIncome, t)
               \X MulRatio(amount, w.bonusIncome, t)}
    ELSE {walletSave(w)}

\* walletSchema.methods.canWithdraw: the wallet as the call leaves it in
\* memory and the object it returns.
canWithdraw(w, amount, today) ==
  LET w1 == IF w.lastWithdrawalDate # today
            THEN [w EXCEPT !.todayWithdrawal = 0] ELSE w
  IN [wallet |-> w1,
      result |->
        [canWithdraw |-> /\ amount >= w1.minWithdrawal
                         /\ amount <= availableBalance(w1)
                         /\ (w1.todayWithdrawal + amount) <= w1.maxWithdrawalPerDay,
         availableBalance |-> availableBalance(w1),
         minWithdrawal |-> w1.minWithdrawal,
         maxWithdrawalPerDay |-> w1.maxWithdrawalPerDay,
         todayWithdrawal |-> w1.todayWithdrawal,
         remainingDailyLimit |-> w1.maxWithdrawalPerDay - w1.todayWithdrawal]]

\* ------------------------------------------------------------ Payout model
\* Variant: the enum also lists the status the cancel route writes.
PayoutStatusEnum_withCancelled ==
  {"pending", "approved", "rejected", "processing", "completed", "failed",
   "cancelled"}

\* payoutSchema.status enum
PayoutStatusEnum ==
  {"pending", "approved", "rejected", "processing", "completed", "failed"}

\* payoutSchema.amount min validator
PayoutMinAmount == 1

\* new Payout({userId, amount, status})
NewPayout(u, amount, status) ==
  [userId |-> u, amount |-> amount, status |-> status,
   requestedAt |-> Today,
   processedAt |-> Null, processedBy |-> Null, completedAt |-> Null,
   rejectionReason |-> Null, retryCount |-> 0, lastRetryAt |-> Null]

\* The schema validators run by payout.save().
payoutValid(p) ==
  /\ p.status \in PayoutStatusEnum
  /\ p.amount >= PayoutMinAmount

\* payout.save()
payoutSave(p) ==
  IF payoutValid(p) THEN [err |-> "none", doc |-> p]
  ELSE [err |-> "ValidationError", doc |-> p]

\* Variant: approve changes the status only.
approve_statusOnly(p, adminId) ==
  payoutSave([p EXCEPT !.status = "approved"])

\* payoutSchema.methods.approve
approve(p, adminId) ==
  payoutSave([p EXCEPT !.status = "approved", !.processedAt = Timestamp,
                       !.processedBy = adminId])

\* payoutSchema.methods.reject
reject(p, adminId, reason) ==
  payoutSave([p EXCEPT !.status = "rejected", !.processedAt = Timestamp,
                       !.processedBy = adminId, !.rejectionReason = reason])

\* payoutSchema.methods.markProcessing
markProcessing(p, adminId) ==
  payoutSave([p EXCEPT !.status = "processing", !.processedBy = adminId])

\* payoutSchema.methods.markCompleted
markCompleted(p) ==
  payoutSave([p EXCEPT !.status = "completed", !.completedAt = Timestamp])

\* payoutSchema.methods.markFailed
markFailed(p) ==
  payoutSave([p EXCEPT !.status = "failed", !.retryCount = @ + 1,
                       !.lastRetryAt = Timestamp])

\* ------------------------------------------------------------- middleware
\* requireAdmin (middleware/auth): passes for a principal with the admin role.
requireAdmin(p) == role(p) = "admin"

\* validatePayoutRequest: body('amount').isFloat({ min: 1 })
validatePayoutRequest(amount) == amount >= 1

\* The request and response of the operation that ran last.
Resp(op, by, pid, amount, arg, code, msg) ==
  [op |-> op, by |-> by, pid |-> pid, amount |-> amount, arg |-> arg,
   code |-> code, msg |-> msg]

\* ------------------------------------------------------------------ inputs
Days == {Today}
\* The <<type, amount>> arguments of the addIncome calls: a credit is as
\* large as the bound on the income held allows.
IncomeCalls ==
  {<<"direct", MaxBalance>>, <<"level", MaxBalance>>, <<"roi", MaxBalance>>,
   <<"bonus", MaxBalance>>, <<"other", MaxBalance>>, <<"direct", 0>>}
DeductAmounts == {0, 7, 10}
PayoutAmounts == {0, 5, 10}
StatusInputs ==
  {"pending", "approved", "rejected", "processing", "completed", "failed",
   "cancelled"}
PayoutIds == 1..NumPayouts

\* The income held by all wallets together.
RECURSIVE sumIncome(_, _)
sumIncome(ws, us) ==
  IF us = {} THEN 0
  ELSE LET u == CHOOSE x \in us : TRUE
       IN  totalIncome(ws[u]) + sumIncome(ws, us \ {u})
allIncome(ws) == sumIncome(ws, DOMAIN ws)

\* --------------------------------------------------------------- seed data
\* The Payout documents the seed inserts.
SeedPayoutIds == {1}
SeedIncomes == {<<0, 0, 0, 0>>, <<7, 3, 0, 0>>}
SeedPayoutOwners == Users
SeedPayoutAmounts == {10}
SeedPayoutStatuses == {"pending", "approved", "rejected", "completed"}

\* seedData: wallets are saved with the seeded category balances, payouts
\* are inserted with a seeded status and no wallet is touched for them.
Init ==
  /\ FreshRuntime
  /\ wallets \in [Users ->
        {walletPreSave(NewWallet(t[1], t[2], t[3], t[4])) : t \in SeedIncomes}]
  /\ allIncome(wallets) <= MaxBalance
  /\ \E ids \in SUBSET SeedPayoutIds :
       payouts \in [ids ->
         {NewPayout(u, a, s) : u \in SeedPayoutOwners, a \in SeedPayoutAmounts,
                                          s \in SeedPayoutStatuses}]
  /\ last = Resp("seed", Null, 0, 0, Null, 0, "none")
  /\ procs = <<>>
  /\ transactions = <<>>
  /\ users = <<>>
  /\ plans = <<>>

\* ---------------------------------------------------------- Wallet methods
\* A call of wallet.addIncome(type, amount) on the wallet of user u.
AddIncome(u, type, amount) ==
  /\ allIncome(wallets) + amount <= MaxBalance
  /\ LET r == addIncome(wallets[u], type, amount) IN
       /\ wallets' = IF r.err = "none" THEN [wallets EXCEPT ![u] = r.doc]
                     ELSE wallets
       /\ last' = Resp("addIncome", u, 0, amount, type, 0, r.err)
  /\ UNCHANGED payouts

\* A call of wallet.deductBalance(amount) on the wallet of user u.
DeductBalance(u, amount) ==
  /\ \E r \in deductBalance(wallets[u], amount) :
       /\ wallets' = IF r.err = "none" THEN [wallets EXCEPT ![u] = r.doc]
                     ELSE wallets
       /\ last' = Resp("deductBalance", u, 0, amount, Null, 0, r.err)
  /\ UNCHANGED payouts

\* ------------------------------------------------------------------ routes
\* PUT /api/wallet
PutWallet(u) ==
  /\ LET r == walletSave(wallets[u]) IN
       IF r.err = "none"
       THEN /\ wallets' = [wallets EXCEPT ![u] = r.doc]
            /\ last' = Resp("putWallet", u, 0, 0, Null, 200, "none")
       ELSE /\ UNCHANGED wallets
            /\ last' = Resp("putWallet", u, 0, 0, Null, 400, r.err)
  /\ UNCHANGED payouts

\* Variant: the eligibility result is never consulted.
createRejected_never(cwResult) == FALSE

\* if (!canWithdraw.allowed) of POST /api/payouts
createRejected(cwResult) == ~FlagOf(cwResult, "allowed")

\* POST /api/payouts
PostPayout(u, amount, today) ==
  IF ~validatePayoutRequest(amount)
  THEN /\ last' = Resp("postPayout", u, 0, amount, Null, 400, "Validation failed")
       /\ UNCHANGED <<wallets, payouts>>
  ELSE LET cw == canWithdraw(wallets[u], amount, today) IN
    IF createRejected(cw.result)
    THEN /\ last' = Resp("postPayout", u, 0, amount, Null, 400, "Error")
         /\ UNCHANGED <<wallets, payouts>>
    ELSE \E pid \in PayoutIds \ DOMAIN payouts :
      /\ pid = Cardinality(DOMAIN payouts) + 1
      /\ LET ps == payoutSave(NewPayout(u, amount, "pending"))
             ws == walletSave([cw.wallet EXCEPT !.pendingWithdrawal = @ + amount])
         IN IF ps.err # "none"
            THEN /\ last' = Resp("postPayout", u, 0, amount, Null, 400, ps.err)
                 /\ UNCHANGED <<wallets, payouts>>
            ELSE /\ payouts' = [i \in DOMAIN payouts \cup {pid} |->
                                  IF i = pid THEN ps.doc ELSE payouts[i]]
                 /\ IF ws.err # "none"
                    THEN /\ last' = Resp("postPayout", u, pid, amount, Null, 400, ws.err)
                         /\ UNCHANGED wallets
                    ELSE /\ last' = Resp("postPayout", u, pid, amount, Null, 201, "none")
                         /\ wallets' = [wallets EXCEPT ![u] = ws.doc]

\* Variant: the ownership comparison is missing.
isOwner_anyone(payout, p) == TRUE

\* The ownership check of PUT /api/payouts/:id/cancel
isOwner(payout, p) == payout.userId = p

\* PUT /api/payouts/:id/cancel
PutPayoutCancel(p, pid) ==
  IF pid \notin DOMAIN payouts
  THEN /\ last' = Resp("cancel", p, pid, 0, Null, 404, "Payout not found")
       /\ UNCHANGED <<wallets, payouts>>
  ELSE IF ~isOwner(payouts[pid], p)
  THEN /\ last' = Resp("cancel", p, pid, 0, Null, 403, "Access denied")
       /\ UNCHANGED <<wallets, payouts>>
  ELSE IF payouts[pid].status # "pending"
  THEN /\ last' = Resp("cancel", p, pid, 0, Null, 400,
                       "Can only cancel pending payout requests")
       /\ UNCHANGED <<wallets, payouts>>
  ELSE LET ps == payoutSave([payouts[pid] EXCEPT !.status = "cancelled"]) IN
    IF ps.err # "none"
    THEN /\ last' = Resp("cancel", p, pid, 0, Null, 400, ps.err)
         /\ UNCHANGED <<wallets, payouts>>
    ELSE /\ payouts' = [payouts EXCEPT ![pid] = ps.doc]
         /\ IF p \in DOMAIN wallets
            THEN LET ws == walletSave([wallets[p] EXCEPT
                             !.pendingWithdrawal = @ - payouts[pid].amount])
                 IN IF ws.err # "none"
                    THEN /\ last' = Resp("cancel", p, pid, 0, Null, 400, ws.err)
                         /\ UNCHANGED wallets
                    ELSE /\ last' = Resp("cancel", p, pid, 0, Null, 200, "none")
                         /\ wallets' = [wallets EXCEPT ![p] = ws.doc]
            ELSE /\ last' = Resp("cancel", p, pid, 0, Null, 200, "none")
                 /\ UNCHANGED wallets

\* PUT /api/admin/payouts/:id/status
PutAdminPayoutStatus(p, pid, status) ==
  /\ UNCHANGED wallets
  /\ IF ~requireAdmin(p)
     THEN /\ last' = Resp("adminStatus", p, pid, 0, Null, 403, "Access denied")
          /\ UNCHANGED payouts
     ELSE IF pid \notin DOMAIN payouts
     THEN /\ last' = Resp("adminStatus", p, pid, 0, status, 404, "Payout not found")
          /\ UNCHANGED payouts
     ELSE LET payout == payouts[pid]
              r == IF status = "approved" THEN approve(payout, p)
                   ELSE IF status = "rejected"
                     THEN reject(payout, p, "Rejected by admin")
                   ELSE IF status = "completed" THEN markCompleted(payout)
                   ELSE payoutSave([payout EXCEPT !.status = status])
          IN IF r.err # "none"
             THEN /\ last' = Resp("adminStatus", p, pid, 0, status, 400, r.err)
                  /\ UNCHANGED payouts
             ELSE /\ last' = Resp("adminStatus", p, pid, 0, status, 200, "none")
                  /\ payouts' = [payouts EXCEPT ![pid] = r.doc]

Next ==
  \/ /\ \E u \in Users, call \in IncomeCalls : AddIncome(u, call[1], call[2])
     /\ UNCHANGED outsideLedger
  \/ /\ \E u \in Users, amount \in DeductAmounts : DeductBalance(u, amount)
     /\ UNCHANGED outsideLedger
  \/ /\ \E u \in Users : PutWallet(u)
     /\ UNCHANGED outsideLedger
  \/ /\ \E u \in Users, amount \in PayoutAmounts, today \in Days :
          PostPayout(u, amount, today)
     /\ UNCHANGED outsideLedger
  \/ /\ \E p \in Principals, pid \in PayoutIds : PutPayoutCancel(p, pid)
     /\ UNCHANGED outsideLedger
  \/ /\ \E p \in Principals, pid \in PayoutIds, status \in StatusInputs :
          PutAdminPayoutStatus(p, pid, status)
     /\ UNCHANGED outsideLedger

Spec == Init /\ [][Next]_vars

\* ------------------------------------------- concurrent wallet operations
\* Two request handlers run against the wallet of one user.  A handler first
\* loads the document (Wallet.findOne) and later, in a second step, runs the
\* model method on its copy and saves it.  Document.save() of mongoose
\* writes the paths the handler modified, not the whole document, and the
\* wallet schema does not enable optimistic concurrency.
Procs == {"p1", "p2"}
ConcUser == "u1"

\* The wallet both handlers start from.
ConcStartWallet == walletPreSave(NewWallet(7, 3, 0, 0))

\* The operations a handler may run.
ConcOps ==
  {[kind |-> "addIncome", type |-> "direct", amount |-> 3],
   [kind |-> "addIncome", type |-> "level", amount |-> 3],
   [kind |-> "deductBalance", type |-> Null, amount |-> 7],
   [kind |-> "deductBalance", type |-> Null, amount |-> 10],
   [kind |-> "postPayout", type |-> Null, amount |-> 10]}

\* The document in the database after save() of a copy that was loaded as
\* `loaded` and is now `doc`: the modified paths are set, the others stay.
saveModified(stored, loaded, doc) ==
  [f \in DOMAIN stored |-> IF doc[f] # loaded[f] THEN doc[f] ELSE stored[f]]

\* The results of the model method a handler runs on its copy w.
runOp(w, op, today) ==
  IF op.kind = "addIncome" THEN {addIncome(w, op.type, op.amount)}
  ELSE IF op.kind = "deductBalance" THEN deductBalance(w, op.amount)
  ELSE LET cw == canWithdraw(w, op.amount, today) IN
    IF createRejected(cw.result) THEN {[err |-> "Error", doc |-> w]}
    ELSE {walletSave([cw.wallet EXCEPT !.pendingWithdrawal = @ + op.amount])}

InitConc ==
  /\ FreshRuntime
  /\ wallets = [u \in Users |-> ConcStartWallet]
  /\ payouts = <<>>
  /\ last = Resp("seed", Null, 0, 0, Null, 0, "none")
  /\ procs \in [Procs -> {[op |-> o, pc |-> "start", doc |-> ConcStartWallet] :
                            o \in ConcOps}]
  /\ transactions = <<>>
  /\ users = <<>>
  /\ plans = <<>>

\* await Wallet.findOne({ userId })
Load(p) ==
  /\ procs[p].pc = "start"
  /\ procs' = [procs EXCEPT ![p].pc = "loaded", ![p].doc = wallets[ConcUser]]
  /\ last' = Resp("load", p, 0, procs[p].op.amount, procs[p].op.type, 0, "none")
  /\ UNCHANGED <<wallets, payouts>>
  /\ UNCHANGED outsideConc

\* The Payout collection after the handler of op has run on its copy w: the
\* create route saves a pending payout once canWithdraw has let it pass.
runPayouts(ps, w, op, today) ==
  IF op.kind # "postPayout" THEN ps
  ELSE IF createRejected(canWithdraw(w, op.amount, today).result) THEN ps
  ELSE LET pd == payoutSave(NewPayout(ConcUser, op.amount, "pending"))
           pid == Cardinality(DOMAIN ps) + 1
       IN IF pd.err # "none" THEN ps
          ELSE [i \in DOMAIN ps \cup {pid} |->
                  IF i = pid THEN pd.doc ELSE ps[i]]

\* The model method on the loaded copy and its save().
Run(p) ==
  /\ procs[p].pc = "loaded"
  /\ \E today \in Days : \E r \in runOp(procs[p].doc, procs[p].op, today) :
       /\ payouts' = runPayouts(payouts, procs[p].doc, procs[p].op, today)
       /\ wallets' =
            IF r.err = "none"
            THEN [wallets EXCEPT ![ConcUser] =
                    saveModified(wallets[ConcUser], procs[p].doc, r.doc)]
            ELSE wallets
       /\ procs' = [procs EXCEPT ![p].pc = "done", ![p].doc = r.doc]
       /\ last' = Resp(procs[p].op.kind, p, 0, procs[p].op.amount,
                       procs[p].op.type, 0, r.err)
  /\ UNCHANGED outsideConc

NextConc ==
  \/ \E p \in Procs : Load(p)
  \/ \E p \in Procs : Run(p)

SpecConc == InitConc /\ [][NextConc]_vars

\* ------------------------------------------------------ Transaction model
\* transactionSchema.type enum
TransactionTypeEnum ==
  {"direct_income", "level_income", "roi_income", "bonus_income",
   "withdrawal", "investment", "plan_purchase", "referral_bonus",
   "admin_adjustment"}

\* transactionSchema.status enum
TransactionStatusEnum == {"pending", "completed", "failed", "cancelled"}

\* Variant: the enum also lists the method the create route writes.
PaymentMethodEnum_withAdjustment ==
  {"wallet", "bank", "crypto", "upi", "admin", "admin_adjustment"}

\* transactionSchema.paymentMethod enum
PaymentMethodEnum == {"wallet", "bank", "crypto", "upi", "admin"}

\* new Transaction({...})
NewTransaction(u, type, amount, status, method, before, after, by, completedAt) ==
  [userId |-> u, type |-> type, amount |-> amount, status |-> status,
   paymentMethod |-> method, balanceBefore |-> before, balanceAfter |-> after,
   relatedUserId |-> Null, level |-> 0,
   processedBy |-> by, processedAt |-> Null, completedAt |-> completedAt,
   failedAt |-> Null]

\* The schema validators run by transaction.save().
transactionValid(t) ==
  /\ t.type \in TransactionTypeEnum
  /\ t.status \in TransactionStatusEnum
  /\ t.paymentMethod \in PaymentMethodEnum
  /\ t.amount >= 0

\* transaction.save()
transactionSave(t) ==
  IF transactionValid(t) THEN [err |-> "none", doc |-> t]
  ELSE [err |-> "ValidationError", doc |-> t]

\* transactionSchema.methods.markCompleted
transactionMarkCompleted(t, processedBy) ==
  transactionSave(
    IF processedBy # Null
    THEN [t EXCEPT !.status = "completed", !.completedAt = Timestamp,
                   !.processedBy = processedBy, !.processedAt = Timestamp]
    ELSE [t EXCEPT !.status = "completed", !.completedAt = Timestamp])

\* transactionSchema.methods.markFailed
transactionMarkFailed(t, processedBy) ==
  transactionSave(
    IF processedBy # Null
    THEN [t EXCEPT !.status = "failed", !.failedAt = Timestamp,
                   !.processedBy = processedBy, !.processedAt = Timestamp]
    ELSE [t EXCEPT !.status = "failed", !.failedAt = Timestamp])

\* Variant: completing a transaction credits its amount to the owner.
completionWallets_credit(ws, t) ==
  IF t.userId \in DOMAIN ws
  THEN [ws EXCEPT ![t.userId] =
          walletPreSave([@ EXCEPT !.directIncome = @ + t.amount])]
  ELSE ws

\* The wallets after markCompleted: the method writes the status, the
\* completion time and the processor of the transaction and no wallet.
completionWallets(ws, t) == ws

\* validateTransaction: type in the list, amount a float >= 0
validateTransaction(type, amount) ==
  type \in TransactionTypeEnum /\ amount >= 0

\* typeof wallet.addTransaction === 'function': the Wallet model defines
\* addIncome, deductBalance and canWithdraw only.
WalletMethods == {"addIncome", "deductBalance", "canWithdraw"}

TransactionIds == 1..NumTransactions
SeedTransactionIds == {1}
SeedTransactionStatuses == {"completed", "pending"}
SeedCompletedAt == {Timestamp, Null}
TxStatusInputs == {"pending", "completed", "failed", "cancelled", "bogus"}
TxTypeInputs == {"admin_adjustment", "bogus"}
TxAmountInputs == {0, 5}
TxUserInputs == Users \cup {"nobody"}

\* The request and response of the operation that ran last, with the status
\* the transaction had when the request arrived.
TxResp(op, by, tid, amount, arg, code, msg, was) ==
  [op |-> op, by |-> by, pid |-> tid, amount |-> amount, arg |-> arg,
   code |-> code, msg |-> msg, was |-> was]

\* seedData: the wallets and the sample transactions (Transaction.insertMany).
InitTx ==
  /\ FreshRuntime
  /\ wallets = [u \in Users |-> walletPreSave(NewWallet(7, 3, 0, 0))]
  /\ payouts = <<>>
  /\ procs = <<>>
  /\ users = <<>>
  /\ plans = <<>>
  /\ \E ids \in SUBSET SeedTransactionIds :
       transactions \in [ids ->
         {NewTransaction(u, "direct_income", 5, st, "wallet", 0, 5, Null, c) :
            u \in Users, st \in SeedTransactionStatuses, c \in SeedCompletedAt}]
  /\ last = TxResp("seed", Null, 0, 0, Null, 0, "none", Null)

\* POST /api/transactions
PostTransaction(p, userId, type, amount) ==
  /\ UNCHANGED outsideTx
  /\ IF ~validateTransaction(type, amount)
     THEN /\ last' = TxResp("postTransaction", p, 0, amount, userId, 400,
                          "Validation failed", Null)
          /\ UNCHANGED <<wallets, transactions>>
     ELSE IF role(p) # "admin"
     THEN /\ last' = TxResp("postTransaction", p, 0, amount, userId, 403,
                          "Admin access required", Null)
          /\ UNCHANGED <<wallets, transactions>>
     ELSE IF userId \notin DOMAIN wallets
     THEN /\ last' = TxResp("postTransaction", p, 0, amount, userId, 404,
                          "User wallet not found", Null)
          /\ UNCHANGED <<wallets, transactions>>
     ELSE LET balanceBefore == wallets[userId].totalBalance
              r == transactionSave(
                     NewTransaction(userId, type, amount, "completed",
                                    "admin_adjustment", balanceBefore,
                                    balanceBefore + amount, p, Timestamp))
              tid == Cardinality(DOMAIN transactions) + 1
          IN IF r.err # "none"
             THEN /\ last' = TxResp("postTransaction", p, 0, amount, userId, 400,
                                  r.err, Null)
                  /\ UNCHANGED <<wallets, transactions>>
             ELSE /\ tid \in TransactionIds
                  /\ transactions' =
                       [i \in DOMAIN transactions \cup {tid} |->
                          IF i = tid THEN r.doc ELSE transactions[i]]
                  /\ "addTransaction" \notin WalletMethods
                  /\ last' = TxResp("postTransaction", p, tid, amount, userId,
                                  500, "wallet.addTransaction is not a function", Null)
                  /\ UNCHANGED wallets

\* if (status === 'completed' && oldStatus !== 'completed') of
\* PUT /api/transactions/:id/status
completesNow(status, oldStatus) ==
  status = "completed" /\ oldStatus # "completed"

\* PUT /api/transactions/:id/status
PutTransactionStatus(p, tid, status) ==
  /\ UNCHANGED outsideTx
  /\ IF role(p) # "admin"
     THEN /\ last' = TxResp("txStatus", p, tid, 0, Null, 403,
                          "Admin access required", Null)
          /\ UNCHANGED <<wallets, transactions>>
     ELSE IF tid \notin DOMAIN transactions
     THEN /\ last' = TxResp("txStatus", p, tid, 0, status, 404,
                          "Transaction not found", Null)
          /\ UNCHANGED <<wallets, transactions>>
     ELSE LET t == transactions[tid]
              r == IF completesNow(status, t.status)
                     THEN transactionMarkCompleted(t, p)
                   ELSE IF status = "failed" THEN transactionMarkFailed(t, p)
                   ELSE transactionSave([t EXCEPT !.status = status,
                                                  !.processedBy = p])
          IN IF r.err # "none"
             THEN /\ last' = TxResp("txStatus", p, tid, 0, status, 400, r.err, t.status)
                  /\ UNCHANGED <<wallets, transactions>>
             ELSE /\ last' = TxResp("txStatus", p, tid, 0, status, 200, "none", t.status)
                  /\ transactions' = [transactions EXCEPT ![tid] = r.doc]
                  /\ wallets' = IF completesNow(status, t.status)
                                THEN completionWallets(wallets, t)
                                ELSE wallets

\* PUT /api/admin/transactions/:id/status
PutAdminTransactionStatus(p, tid, status) ==
  /\ UNCHANGED outsideTx
  /\ IF ~requireAdmin(p)
     THEN /\ last' = TxResp("adminTxStatus", p, tid, 0, Null, 403,
                          "Access denied", Null)
          /\ UNCHANGED <<wallets, transactions>>
     ELSE IF tid \notin DOMAIN transactions
     THEN /\ last' = TxResp("adminTxStatus", p, tid, 0, status, 404,
                          "Transaction not found", Null)
          /\ UNCHANGED <<wallets, transactions>>
     ELSE LET t == transactions[tid]
              r == IF status = "completed" THEN transactionMarkCompleted(t, p)
                   ELSE IF status = "failed" THEN transactionMarkFailed(t, p)
                   ELSE transactionSave([t EXCEPT !.status = status])
          IN IF r.err # "none"
             THEN /\ last' = TxResp("adminTxStatus", p, tid, 0, status, 400,
                                  r.err, t.status)
                  /\ UNCHANGED <<wallets, transactions>>
             ELSE /\ last' = TxResp("adminTxStatus", p, tid, 0, status, 200,
                                  "none", t.status)
                  /\ transactions' = [transactions EXCEPT ![tid] = r.doc]
                  /\ wallets' = IF status = "completed"
                                THEN completionWallets(wallets, t)
                                ELSE wallets

NextTx ==
  \/ \E p \in Principals, userId \in TxUserInputs, type \in TxTypeInputs,
        amount \in TxAmountInputs : PostTransaction(p, userId, type, amount)
  \/ \E p \in Principals, tid \in TransactionIds, status \in TxStatusInputs :
       PutTransactionStatus(p, tid, status)
  \/ \E p \in Principals, tid \in TransactionIds, status \in TxStatusInputs :
       PutAdminTransactionStatus(p, tid, status)

SpecTx == InitTx /\ [][NextTx]_vars

\* -------------------------------------------------------------- Plan model
\* Dates on the plan documents: the moment the purchase requests are served
\* (new Date()), one before it, one after it, and the null date.
NoDate == 0
Earlier == 1
Now == 2
Later == 3

\* new Plan({amount, levelCommissions, ...}); isActive defaults to true.
NewPlan(amount, levelCommissions) ==
  [amount |-> amount, isActive |-> TRUE, isVisible |-> TRUE,
   validFrom |-> Earlier, validUntil |-> NoDate,
   levelCommissions |-> levelCommissions]

\* planSchema.methods.isPurchasable
isPurchasable(p) ==
  IF ~p.isActive \/ ~p.isVisible THEN FALSE
  ELSE IF p.validFrom > Now THEN FALSE
  ELSE IF p.validUntil # NoDate /\ p.validUntil < Now THEN FALSE
  ELSE TRUE

\* The schema validators run by plan.save(): amount min 1, level min 1,
\* percentage between 0 and 50.
planValid(p) ==
  /\ p.amount >= 1
  /\ \A i \in DOMAIN p.levelCommissions :
       /\ p.levelCommissions[i].level >= 1
       /\ p.levelCommissions[i].percentage >= 0
       /\ p.levelCommissions[i].percentage <= 50

\* Array.prototype.sort((a, b) => a.level - b.level): a stable insertion of
\* entry e into the sorted list lc.
RECURSIVE insertByLevel(_, _)
insertByLevel(e, lc) ==
  IF lc = <<>> THEN <<e>>
  ELSE IF e.level < Head(lc).level THEN <<e>> \o lc
  ELSE <<Head(lc)>> \o insertByLevel(e, Tail(lc))

\* Variant: the list is left in the order it was given.
sortByLevel_unsorted(lc) == lc

\* this.levelCommissions.sort((a, b) => a.level - b.level)
RECURSIVE sortByLevel(_)
sortByLevel(lc) ==
  IF lc = <<>> THEN <<>>
  ELSE insertByLevel(lc[Len(lc)], sortByLevel(SubSeq(lc, 1, Len(lc) - 1)))

\* planSchema.pre('save')
planPreSave(p) ==
  LET sorted == sortByLevel(p.levelCommissions) IN
    IF \E i \in DOMAIN sorted : sorted[i].level # i
    THEN [err |-> "Level commissions must be sequential starting from level 1",
          doc |-> p]
    ELSE [err |-> "none", doc |-> [p EXCEPT !.levelCommissions = sorted]]

\* plan.save(): validation, then the pre-save hook.
planSave(p) ==
  IF planValid(p) THEN planPreSave(p)
  ELSE [err |-> "ValidationError", doc |-> p]

\* planSchema.methods.getCommissionForLevel
RECURSIVE findCommission(_, _)
findCommission(lc, level) ==
  IF lc = <<>> THEN 0
  ELSE IF Head(lc).level = level THEN Head(lc).percentage
  ELSE findCommission(Tail(lc), level)
getCommissionForLevel(p, level) == findCommission(p.levelCommissions, level)

\* validatePlanCreation: amount >= 1, a non-empty levelCommissions array,
\* every level an integer >= 1, every percentage between 0 and 50.
validatePlanCreation(amount, lc) ==
  /\ amount >= 1
  /\ Len(lc) >= 1
  /\ \A i \in DOMAIN lc :
       lc[i].level >= 1 /\ lc[i].percentage >= 0 /\ lc[i].percentage <= 50

\* The status the error handler answers with.
errorStatus(err) == IF err = "ValidationError" THEN 400 ELSE 500

\* The request and response of the plan operation that ran last.
PlanResp(op, by, pid, arg, code, msg) ==
  [op |-> op, by |-> by, pid |-> pid, arg |-> arg, code |-> code, msg |-> msg]

PlanIds == 1..NumPlans
\* The principals that call the admin plan routes.
PlanPrincipals == {Admin, "u1"}
\* The levelCommissions entries a request may carry.
CommissionEntries ==
  {[level |-> 1, percentage |-> 10], [level |-> 2, percentage |-> 5],
   [level |-> 3, percentage |-> 3]}
LevelLists == UNION {[1..n -> CommissionEntries] : n \in 0..MaxLevels}
\* The amount and the levelCommissions of the first plan the seed inserts.
SeedPlanAmount == 100
SeedPlanLevels ==
  <<[level |-> 1, percentage |-> 10], [level |-> 2, percentage |-> 5],
    [level |-> 3, percentage |-> 3]>>
SeedPlans == [i \in {1} |-> NewPlan(SeedPlanAmount, SeedPlanLevels)]

\* seedData: Plan.insertMany(plans)
InitPlan ==
  /\ FreshRuntime
  /\ plans = SeedPlans
  /\ wallets = <<>> /\ payouts = <<>> /\ procs = <<>>
  /\ transactions = <<>> /\ users = <<>>
  /\ last = PlanResp("seed", Null, 0, <<>>, 0, "none")

\* What the admin plan routes leave alone.
outsidePlan == <<wallets, payouts, procs, transactions, users, runtime>>

\* POST /api/admin/plans
PostPlan(p, lc) ==
  /\ UNCHANGED outsidePlan
  /\ IF ~requireAdmin(p)
     THEN /\ last' = PlanResp("postPlan", p, 0, lc, 403, "Access denied")
          /\ UNCHANGED plans
     ELSE IF ~validatePlanCreation(SeedPlanAmount, lc)
     THEN /\ last' = PlanResp("postPlan", p, 0, lc, 400, "Validation failed")
          /\ UNCHANGED plans
     ELSE LET r == planSave(NewPlan(SeedPlanAmount, lc))
              pid == CHOOSE i \in PlanIds \ DOMAIN plans :
                       \A j \in PlanIds \ DOMAIN plans : i <= j
          IN IF r.err # "none"
             THEN /\ last' = PlanResp("postPlan", p, 0, lc, errorStatus(r.err),
                                    r.err)
                  /\ UNCHANGED plans
             ELSE /\ PlanIds \ DOMAIN plans # {}
                  /\ last' = PlanResp("postPlan", p, pid, lc, 201, "none")
                  /\ plans' = [i \in DOMAIN plans \cup {pid} |->
                                 IF i = pid THEN r.doc ELSE plans[i]]

\* PUT /api/admin/plans/:id
PutPlan(p, pid, lc) ==
  /\ UNCHANGED outsidePlan
  /\ IF ~requireAdmin(p)
     THEN /\ last' = PlanResp("putPlan", p, pid, lc, 403, "Access denied")
          /\ UNCHANGED plans
     ELSE IF pid \notin DOMAIN plans
     THEN /\ last' = PlanResp("putPlan", p, pid, lc, 404, "Plan not found")
          /\ UNCHANGED plans
     ELSE LET r == planSave([plans[pid] EXCEPT !.levelCommissions = lc]) IN
       IF r.err # "none"
       THEN /\ last' = PlanResp("putPlan", p, pid, lc, errorStatus(r.err), r.err)
            /\ UNCHANGED plans
       ELSE /\ last' = PlanResp("putPlan", p, pid, lc, 200, "none")
            /\ plans' = [plans EXCEPT ![pid] = r.doc]

\* DELETE /api/admin/plans/:id
DeletePlan(p, pid) ==
  /\ UNCHANGED outsidePlan
  /\ IF ~requireAdmin(p)
     THEN /\ last' = PlanResp("deletePlan", p, pid, <<>>, 403, "Access denied")
          /\ UNCHANGED plans
     ELSE IF pid \notin DOMAIN plans
     THEN /\ last' = PlanResp("deletePlan", p, pid, <<>>, 404, "Plan not found")
          /\ UNCHANGED plans
     ELSE /\ last' = PlanResp("deletePlan", p, pid, <<>>, 200, "none")
          /\ plans' = [i \in DOMAIN plans \ {pid} |-> plans[i]]

NextPlan ==
  \/ \E p \in PlanPrincipals, lc \in LevelLists : PostPlan(p, lc)
  \/ \E p \in PlanPrincipals, pid \in PlanIds, lc \in LevelLists :
       PutPlan(p, pid, lc)
  \/ \E p \in PlanPrincipals, pid \in PlanIds : DeletePlan(p, pid)

SpecPlan == InitPlan /\ [][NextPlan]_vars

\* ------------------------------------------- referral network and purchase
\* User documents are keyed by a number; 0 stands for "no sponsor" and for
\* "no plan".
UserIds == 1..NumUsers
NoUser == 0
NoPlan == 0

\* new User({sponsorId, level, directReferrals, totalTeamSize, currentPlan})
NewUser(sponsorId, level, directReferrals, totalTeamSize, currentPlan) ==
  [sponsorId |-> sponsorId, level |-> level,
   directReferrals |-> directReferrals, totalTeamSize |-> totalTeamSize,
   currentPlan |-> currentPlan, loginAttempts |-> 0, lockUntil |-> NoDate]

\* The request and response of the operation that ran last.
NetResp(op, by, pid, arg, code, msg) ==
  [op |-> op, by |-> by, pid |-> pid, arg |-> arg, code |-> code, msg |-> msg]

\* The demo users the seed creates, and the statistics it draws for them.
SeedUserIds == {1, 2}
SeedUserStats == {<<0, 0>>, <<1, 2>>}
\* Whether the seed gives demo user 2 the sponsor it can draw (demo user 1).
SeedSponsorOf2 == {NoUser, 1}

\* An empty database.
InitNet ==
  /\ FreshRuntime
  /\ users = <<>> /\ wallets = <<>> /\ plans = <<>>
  /\ transactions = <<>> /\ payouts = <<>> /\ procs = <<>>
  /\ last = NetResp("none", NoUser, 0, 0, 0, "none")

\* seedData: drops the collections, inserts the plans, creates the demo
\* users (with drawn statistics and a current plan) and their wallets, then
\* sets the drawn sponsor of each demo user and saves it, then inserts
\* sample transactions and payouts.
SeedData ==
  /\ \E st1 \in SeedUserStats, st2 \in SeedUserStats, sp \in SeedSponsorOf2 :
       users' = [i \in SeedUserIds |->
                   IF i = 1 THEN NewUser(NoUser, 1, st1[1], st1[2], 1)
                   ELSE NewUser(sp, 1, st2[1], st2[2], 1)]
  /\ wallets' = [i \in SeedUserIds |-> walletPreSave(NewWallet(7, 3, 0, 0))]
  /\ plans' = SeedPlans
  /\ transactions' =
       [i \in {1} |-> NewTransaction(1, "direct_income", 5, "completed",
                                     "wallet", 0, 5, Null, Timestamp)]
  /\ payouts' = [i \in {1} |-> NewPayout(1, 10, "pending")]
  /\ last' = NetResp("seed", NoUser, 0, 0, 0, "none")
  /\ UNCHANGED <<procs, runtime>>

\* The while loop of the register route: totalTeamSize of id and of every
\* sponsor above it is raised by one.
RECURSIVE incrementUpline(_, _)
incrementUpline(us, id) ==
  LET us1 == [us EXCEPT ![id].totalTeamSize = @ + 1] IN
    IF us[id].sponsorId # NoUser /\ us[id].sponsorId \in DOMAIN us
    THEN incrementUpline(us1, us[id].sponsorId)
    ELSE us1

\* POST /api/auth/register: name is the username, sponsorCode the referral
\* code of a user (0 when the request carries none).
Register(name, sponsorCode) ==
  /\ UNCHANGED <<plans, transactions, payouts, procs, runtime>>
  /\ IF name \in DOMAIN users
     THEN /\ last' = NetResp("register", name, 0, sponsorCode, 400,
                             "User with this email or username already exists")
          /\ UNCHANGED <<users, wallets>>
     ELSE IF sponsorCode # NoUser /\ sponsorCode \notin DOMAIN users
     THEN /\ last' = NetResp("register", name, 0, sponsorCode, 400,
                             "Invalid sponsor code")
          /\ UNCHANGED <<users, wallets>>
     ELSE LET level == IF sponsorCode # NoUser
                       THEN users[sponsorCode].level + 1 ELSE 1
              created == [i \in DOMAIN users \cup {name} |->
                            IF i = name
                            THEN NewUser(sponsorCode, level, 0, 0, NoPlan)
                            ELSE users[i]]
          IN /\ users' =
                  IF sponsorCode # NoUser
                  THEN incrementUpline(
                         [created EXCEPT ![sponsorCode].directReferrals = @ + 1],
                         sponsorCode)
                  ELSE created
             /\ wallets' = [i \in DOMAIN wallets \cup {name} |->
                              IF i = name
                              THEN walletSave(NewWallet(0, 0, 0, 0)).doc
                              ELSE wallets[i]]
             /\ last' = NetResp("register", name, 0, sponsorCode, 201, "none")

\* POST /api/plans/:id/purchase
Purchase(u, pid) ==
  /\ u \in DOMAIN users
  /\ UNCHANGED <<wallets, plans, payouts, procs, runtime>>
  /\ IF pid \notin DOMAIN plans
     THEN /\ last' = NetResp("purchase", u, pid, 0, 404, "Plan not found")
          /\ UNCHANGED <<users, transactions>>
     ELSE IF ~plans[pid].isActive
     THEN /\ last' = NetResp("purchase", u, pid, 0, 400, "Plan is not available")
          /\ UNCHANGED <<users, transactions>>
     ELSE IF users[u].currentPlan # NoPlan
     THEN /\ last' = NetResp("purchase", u, pid, 0, 400,
                             "You already have an active plan")
          /\ UNCHANGED <<users, transactions>>
     ELSE LET r == transactionSave(
                     NewTransaction(u, "plan_purchase", plans[pid].amount,
                                    "completed", "wallet", 0, 0, Null,
                                    Timestamp))
              tid == Cardinality(DOMAIN transactions) + 1
          IN /\ users' = [users EXCEPT ![u].currentPlan = pid]
             /\ IF r.err # "none"
                THEN /\ last' = NetResp("purchase", u, pid, 0, 400, r.err)
                     /\ UNCHANGED transactions
                ELSE /\ last' = NetResp("purchase", u, pid, 0, 200, "none")
                     /\ transactions' =
                          [i \in DOMAIN transactions \cup {tid} |->
                             IF i = tid THEN r.doc ELSE transactions[i]]

NextNet ==
  \/ SeedData
  \/ \E name \in UserIds, sponsorCode \in UserIds \cup {NoUser} :
       Register(name, sponsorCode)
  \/ \E u \in UserIds, pid \in PlanIds : Purchase(u, pid)

SpecNet == InitNet /\ [][NextNet]_vars

\* ------------------------------------------------------ payout processing
\* The admin works through seeded payout requests of one user on one day.
\* The seed draws each amount from 50..549, each status from four values and
\* each requestedAt from the last fifteen days; it sets no completedAt, so a
\* completed payout with completedAt set was completed on the modelled day.
CapUser == "u1"
CapPayoutIds == {1, 2}
CapPayoutAmounts == {549}
CapRequestDays == {"day0", Today}

InitCap ==
  /\ FreshRuntime
  /\ wallets = [u \in Users |-> walletPreSave(NewWallet(7, 3, 0, 0))]
  /\ payouts \in [CapPayoutIds ->
       {[NewPayout(CapUser, a, s) EXCEPT !.requestedAt = d] :
          a \in CapPayoutAmounts, s \in SeedPayoutStatuses,
          d \in CapRequestDays}]
  /\ last = Resp("seed", Null, 0, 0, Null, 0, "none")
  /\ procs = <<>>
  /\ transactions = <<>>
  /\ users = <<>>
  /\ plans = <<>>

NextCap ==
  \/ /\ \E amount \in PayoutAmounts : PostPayout(CapUser, amount, Today)
     /\ UNCHANGED outsideLedger
  \/ /\ \E pid \in CapPayoutIds, status \in StatusInputs :
          PutAdminPayoutStatus(Admin, pid, status)
     /\ UNCHANGED outsideLedger

SpecCap == InitCap /\ [][NextCap]_vars

\* ------------------------------------------------- deductBalance on its own
\* deductBalance applied to one stored wallet whose four categories range
\* over a grid; every amount up to the largest total is tried.  No route
\* ever raises pendingWithdrawal, so the stored wallets carry none.
DeductUser == "u1"
DeductInputs == 0..(4 * MaxCategory)

InitDeduct ==
  /\ FreshRuntime
  /\ wallets \in [{DeductUser} ->
       {walletPreSave(NewWallet(d, l, r, b)) :
          d \in 0..MaxCategory, l \in 0..MaxCategory,
          r \in 0..MaxCategory, b \in 0..MaxCategory}]
  /\ payouts = <<>>
  /\ last = Resp("seed", Null, 0, 0, Null, 0, "none")
  /\ procs = <<>>
  /\ transactions = <<>>
  /\ users = <<>>
  /\ plans = <<>>

NextDeduct ==
  /\ \E amount \in DeductInputs : DeductBalance(DeductUser, amount)
  /\ UNCHANGED outsideLedger

SpecDeduct == InitDeduct /\ [][NextDeduct]_vars

\* ------------------------------------------------ plan purchase, by steps
\* POST /api/plans/:id/purchase as the handler runs it: each await is a
\* step, and two requests interleave at the awaits.  The plans are the ones
\* an admin has stored (POST and PUT /api/admin/plans take isActive,
\* isVisible, validFrom and validUntil from the request body); the users
\* have registered without a sponsor and hold no plan.
BuyProcs == {"b1", "b2"}
ShopUsers == {1, 2}
ShopPlanIds == {1}
ShopPlanInputs == {1, 2}
ShopPlans ==
  {[NewPlan(SeedPlanAmount, SeedPlanLevels) EXCEPT
      !.isActive = a, !.isVisible = v, !.validFrom = f, !.validUntil = t] :
     a \in BOOLEAN, v \in BOOLEAN, f \in {Earlier, Later},
     t \in {NoDate, Earlier, Later}}

InitShop ==
  /\ FreshRuntime
  /\ users = [i \in ShopUsers |-> NewUser(NoUser, 1, 0, 0, NoPlan)]
  /\ wallets = [i \in ShopUsers |-> walletSave(NewWallet(0, 0, 0, 0)).doc]
  /\ plans \in [ShopPlanIds -> ShopPlans]
  /\ transactions = <<>> /\ payouts = <<>>
  /\ procs \in [BuyProcs ->
       {[user |-> u, pid |-> i, pc |-> "start", code |-> 0,
         doc |-> NewUser(NoUser, 1, 0, 0, NoPlan)] :
          u \in ShopUsers, i \in ShopPlanInputs}]
  /\ last = NetResp("none", NoUser, 0, 0, 0, "none")

\* What the purchase handler leaves alone.
outsideShop == <<wallets, plans, payouts, runtime>>

\* const plan = await Plan.findById(req.params.id), and the two tests on it
FindPlan(p) ==
  /\ procs[p].pc = "start"
  /\ UNCHANGED <<users, transactions>>
  /\ UNCHANGED outsideShop
  /\ LET pid == procs[p].pid IN
       IF pid \notin DOMAIN plans
       THEN /\ procs' = [procs EXCEPT ![p].pc = "done", ![p].code = 404]
            /\ last' = NetResp("purchase", procs[p].user, pid, 0, 404,
                               "Plan not found")
       ELSE IF ~plans[pid].isActive
       THEN /\ procs' = [procs EXCEPT ![p].pc = "done", ![p].code = 400]
            /\ last' = NetResp("purchase", procs[p].user, pid, 0, 400,
                               "Plan is not available")
       ELSE /\ procs' = [procs EXCEPT ![p].pc = "plan"]
            /\ last' = NetResp("findPlan", procs[p].user, pid, 0, 0, "none")

\* const user = await User.findById(req.user._id), and the test on
\* user.currentPlan
FindUser(p) ==
  /\ procs[p].pc = "plan"
  /\ UNCHANGED <<users, transactions>>
  /\ UNCHANGED outsideShop
  /\ LET user == users[procs[p].user] IN
       IF user.currentPlan # NoPlan
       THEN /\ procs' = [procs EXCEPT ![p].pc = "done", ![p].code = 400,
                                      ![p].doc = user]
            /\ last' = NetResp("purchase", procs[p].user, procs[p].pid, 0, 400,
                               "You already have an active plan")
       ELSE /\ procs' = [procs EXCEPT ![p].pc = "user", ![p].doc = user]
            /\ last' = NetResp("findUser", procs[p].user, procs[p].pid, 0, 0,
                               "none")

\* user.currentPlan = plan._id; await user.save()
SaveUser(p) ==
  /\ procs[p].pc = "user"
  /\ UNCHANGED transactions
  /\ UNCHANGED outsideShop
  /\ LET u == procs[p].user
         doc == [procs[p].doc EXCEPT !.currentPlan = procs[p].pid]
     IN /\ users' = [users EXCEPT ![u] = saveModified(users[u], procs[p].doc, doc)]
        /\ procs' = [procs EXCEPT ![p].pc = "saved", ![p].doc = doc]
        /\ last' = NetResp("saveUser", u, procs[p].pid, 0, 0, "none")

\* await transaction.save(), and the response
SaveTransaction(p) ==
  /\ procs[p].pc = "saved"
  /\ UNCHANGED users
  /\ UNCHANGED outsideShop
  /\ LET u == procs[p].user
         pid == procs[p].pid
         r == transactionSave(
                NewTransaction(u, "plan_purchase", plans[pid].amount,
                               "completed", "wallet", 0, 0, Null, Timestamp))
         tid == Cardinality(DOMAIN transactions) + 1
     IN IF r.err # "none"
        THEN /\ procs' = [procs EXCEPT ![p].pc = "done", ![p].code = 400]
             /\ last' = NetResp("purchase", u, pid, 0, 400, r.err)
             /\ UNCHANGED transactions
        ELSE /\ procs' = [procs EXCEPT ![p].pc = "done", ![p].code = 200]
             /\ last' = NetResp("purchase", u, pid, 0, 200, "none")
             /\ transactions' = [i \in DOMAIN transactions \cup {tid} |->
                                   IF i = tid THEN r.doc ELSE transactions[i]]

NextShop ==
  \/ \E p \in BuyProcs : FindPlan(p)
  \/ \E p \in BuyProcs : FindUser(p)
  \/ \E p \in BuyProcs : SaveUser(p)
  \/ \E p \in BuyProcs : SaveTransaction(p)

SpecShop == InitShop /\ [][NextShop]_vars

\* ------------------------------------------------------- socket presence
\* The socket handler: sockets connect with or without a token and
\* disconnect; connectedUsers is the handler's Map from user id to the entry
\* of one socket.
SocketIds == 1..NumSockets
\* What the handshake carries: no token, the token of an active user, the
\* token of a deactivated user, a token that does not verify.
Tokens == {"none", "inactive", "bad"} \cup Users

\* authenticateSocket: the fields it sets on the socket, or the refusal.
authenticateSocket(token) ==
  IF token = "none"
    THEN [err |-> "none", isAuthenticated |-> FALSE, userId |-> Null]
  ELSE IF token = "bad"
    THEN [err |-> "none", isAuthenticated |-> FALSE, userId |-> Null]
  ELSE IF token \notin Users
    THEN [err |-> "Authentication failed", isAuthenticated |-> FALSE,
          userId |-> Null]
  ELSE [err |-> "none", isAuthenticated |-> TRUE, userId |-> token]

\* connectedUsers.set(key, entry)
MapSet(map, key, entry) ==
  [k \in DOMAIN map \cup {key} |-> IF k = key THEN entry ELSE map[k]]

\* connectedUsers.delete(key)
MapDelete(map, key) == [k \in DOMAIN map \ {key} |-> map[k]]

\* isUserOnline
isUserOnline(userId) == userId \in DOMAIN connectedUsers

InitSocket ==
  /\ FreshRuntime
  /\ wallets = <<>> /\ payouts = <<>> /\ procs = <<>>
  /\ transactions = <<>> /\ users = <<>> /\ plans = <<>>
  /\ last = Resp("none", Null, 0, 0, Null, 0, "none")

\* What the socket handler leaves alone.
outsideSocket ==
  <<wallets, payouts, procs, transactions, users, plans, now, cryptoService,
    timers>>

\* io.use(authenticateSocket) and io.on('connection')
Connect(sid, token) ==
  /\ sid \notin DOMAIN sockets
  /\ UNCHANGED outsideSocket
  /\ LET a == authenticateSocket(token) IN
       IF a.err # "none"
       THEN /\ last' = Resp("connect", token, sid, 0, Null, 401, a.err)
            /\ UNCHANGED <<sockets, connectedUsers>>
       ELSE /\ last' = Resp("connect", token, sid, 0, Null, 200, "none")
            /\ sockets' = MapSet(sockets, sid,
                 [isAuthenticated |-> a.isAuthenticated, userId |-> a.userId])
            /\ connectedUsers' =
                 IF a.isAuthenticated
                 THEN MapSet(connectedUsers, a.userId, [socketId |-> sid])
                 ELSE connectedUsers

\* socket.on('disconnect')
Disconnect(sid) ==
  /\ sid \in DOMAIN sockets
  /\ UNCHANGED outsideSocket
  /\ last' = Resp("disconnect", sockets[sid].userId, sid, 0, Null, 200, "none")
  /\ sockets' = MapDelete(sockets, sid)
  /\ connectedUsers' =
       IF sockets[sid].isAuthenticated
       THEN MapDelete(connectedUsers, sockets[sid].userId)
       ELSE connectedUsers

NextSocket ==
  \/ \E sid \in SocketIds, token \in Tokens : Connect(sid, token)
  \/ \E sid \in SocketIds : Disconnect(sid)

SpecSocket == InitSocket /\ [][NextSocket]_vars

\* ---------------------------------------------------------- price service
\* CryptoService.startPriceUpdates / stopPriceUpdates and the timers they
\* schedule.  timers maps each handle that setInterval or cron.schedule has
\* returned to its kind and to whether it still fires; a timer that fires
\* calls updatePrices, which fetches the prices and, when the fetch has
\* ended, broadcasts them.  cryptoService.running counts the calls of
\* updatePrices whose fetch has not ended.
MaxRunning == 2

\* setInterval(...): the table with a new interval timer, and its handle.
nextHandle(ts) == Cardinality(DOMAIN ts) + 1
schedule(ts, kind) == MapSet(ts, nextHandle(ts), [kind |-> kind, active |-> TRUE])

\* clearInterval(handle)
clearInterval(ts, handle) ==
  IF handle \in DOMAIN ts THEN [ts EXCEPT ![handle].active = FALSE] ELSE ts

InitCrypto ==
  /\ FreshRuntime
  /\ wallets = <<>> /\ payouts = <<>> /\ procs = <<>>
  /\ transactions = <<>> /\ users = <<>> /\ plans = <<>>
  /\ last = Resp("none", Null, 0, 0, Null, 0, "none")

\* What the price service leaves alone.
outsideCrypto ==
  <<wallets, payouts, procs, transactions, users, plans, now, sockets,
    connectedUsers>>

\* startPriceUpdates(io)
StartPriceUpdates ==
  /\ Cardinality(DOMAIN timers) < 2 * NumStarts
  /\ cryptoService.running < MaxRunning
  /\ UNCHANGED outsideCrypto
  /\ LET withInterval == schedule(timers, "interval")
         handle == nextHandle(timers)
     IN /\ cryptoService' = [cryptoService EXCEPT !.io = TRUE,
                                                  !.running = @ + 1,
                                                  !.updateInterval = handle]
        /\ timers' = schedule(withInterval, "cron")
        /\ last' = Resp("startPriceUpdates", Null, handle, 0, Null, 0, "none")

\* stopPriceUpdates()
StopPriceUpdates ==
  /\ UNCHANGED outsideCrypto
  /\ IF cryptoService.updateInterval # 0
     THEN /\ timers' = clearInterval(timers, cryptoService.updateInterval)
          /\ cryptoService' = [cryptoService EXCEPT !.updateInterval = 0]
     ELSE UNCHANGED <<timers, cryptoService>>
  /\ last' = Resp("stopPriceUpdates", Null, cryptoService.updateInterval, 0,
                  Null, 0, "none")

\* A timer fires and its callback calls updatePrices().
TimerFires(handle) ==
  /\ handle \in DOMAIN timers
  /\ timers[handle].active
  /\ cryptoService.running < MaxRunning
  /\ UNCHANGED outsideCrypto
  /\ UNCHANGED timers
  /\ cryptoService' = [cryptoService EXCEPT !.running = @ + 1]
  /\ last' = Resp("updatePrices", timers[handle].kind, handle, 0, Null, 0,
                  "none")

\* updatePrices() after its fetch: the cached prices are replaced and, with
\* this.io set, 'crypto-prices' is broadcast.
UpdatePricesEnds ==
  /\ cryptoService.running > 0
  /\ UNCHANGED outsideCrypto
  /\ UNCHANGED timers
  /\ cryptoService' = [cryptoService EXCEPT !.running = @ - 1]
  /\ last' = Resp("pricesUpdated", Null, 0, 0, Null, 0,
                  IF cryptoService.io THEN "crypto-prices" ELSE "none")

NextCrypto ==
  \/ StartPriceUpdates
  \/ StopPriceUpdates
  \/ \E handle \in 1..(2 * NumStarts) : TimerFires(handle)
  \/ UpdatePricesEnds

SpecCrypto == InitCrypto /\ [][NextCrypto]_vars

\* ------------------------------------------------------------ login lockout
\* POST /api/auth/login with a wrong password, by steps: the handler loads
\* the user, refuses when the account is locked, and otherwise calls
\* incLoginAttempts on its copy.  Two clients send such requests for the same
\* account; the clock counts hours.
LoginProcs == {"l1", "l2"}
LoginUser == 1
\* The attempts after which the account is locked, and the hours it stays
\* locked.
LockThreshold == 5
LockHours == 2

\* virtual isLocked, at time t
isLocked(user, t) == user.lockUntil # NoDate /\ user.lockUntil > t

\* userSchema.methods.incLoginAttempts called at time t on the copy `this`:
\* the stored document after this.updateOne(updates).
incLoginAttempts(stored, this, t) ==
  IF this.lockUntil # NoDate /\ this.lockUntil < t
  THEN [stored EXCEPT !.lockUntil = NoDate, !.loginAttempts = 1]
  ELSE LET inc == [stored EXCEPT !.loginAttempts = @ + 1] IN
         IF this.loginAttempts + 1 >= LockThreshold /\ ~isLocked(this, t)
         THEN [inc EXCEPT !.lockUntil = t + LockHours]
         ELSE inc

InitLogin ==
  /\ FreshRuntime
  /\ users = [i \in {LoginUser} |-> NewUser(NoUser, 1, 0, 0, NoPlan)]
  /\ wallets = <<>> /\ payouts = <<>> /\ plans = <<>> /\ transactions = <<>>
  /\ procs = [p \in LoginProcs |->
                [pc |-> "start", doc |-> NewUser(NoUser, 1, 0, 0, NoPlan)]]
  /\ last = Resp("none", Null, 0, 0, Null, 0, "none")

\* What the login route leaves alone.
outsideLogin ==
  <<wallets, payouts, plans, transactions, sockets, connectedUsers,
    cryptoService, timers>>

\* const user = await User.findOne(...) and the user.isLocked test
LoginFindUser(p) ==
  /\ procs[p].pc \in {"start", "done"}
  /\ UNCHANGED <<users, now>>
  /\ UNCHANGED outsideLogin
  /\ LET user == users[LoginUser] IN
       IF isLocked(user, now)
       THEN /\ procs' = [procs EXCEPT ![p].pc = "done", ![p].doc = user]
            /\ last' = Resp("login", p, 0, 0, Null, 423,
                            "Account is temporarily locked")
       ELSE /\ procs' = [procs EXCEPT ![p].pc = "loaded", ![p].doc = user]
            /\ last' = Resp("loginFindUser", p, 0, 0, Null, 0, "none")

\* await user.incLoginAttempts() after the password did not match
LoginFails(p) ==
  /\ procs[p].pc = "loaded"
  /\ users[LoginUser].loginAttempts < MaxAttempts
  /\ UNCHANGED now
  /\ UNCHANGED outsideLogin
  /\ users' = [users EXCEPT
                 ![LoginUser] = incLoginAttempts(@, procs[p].doc, now)]
  /\ procs' = [procs EXCEPT ![p].pc = "done"]
  /\ last' = Resp("login", p, 0, 0, Null, 401, "Invalid credentials")

\* An hour passes.
Tick ==
  /\ now < MaxClock
  /\ now' = now + 1
  /\ UNCHANGED <<users, procs, last>>
  /\ UNCHANGED outsideLogin

NextLogin ==
  \/ \E p \in LoginProcs : LoginFindUser(p)
  \/ \E p \in LoginProcs : LoginFails(p)
  \/ Tick

SpecLogin == InitLogin /\ [][NextLogin]_vars

\* ================================================================== claims
Categories(w) == {w.directIncome, w.levelIncome, w.roiIncome, w.bonusIncome}

\* The statuses in which a payout holds a reservation.
OpenStatuses == {"pending", "approved", "processing"}

\* Sum of the amounts of the payouts of user u that hold a reservation.
RECURSIVE sumOpen(_, _, _)
sumOpen(ps, ids, u) ==
  IF ids = {} THEN 0
  ELSE LET i == CHOOSE x \in ids : TRUE
       IN  (IF ps[i].userId = u /\ ps[i].status \in OpenStatuses
            THEN ps[i].amount ELSE 0) + sumOpen(ps, ids \ {i}, u)

C2_AvailableNonNegative ==
  \A u \in Users : \A today \in Days :
    /\ canWithdraw(wallets[u], 0, today).result.availableBalance =
         wallets[u].totalBalance - wallets[u].pendingWithdrawal
    /\ availableBalance(wallets[u]) >= 0

\* A deductBalance call has taken the whole available balance.
C2_Witness ==
  /\ last.op = "deductBalance" /\ last.msg = "none" /\ last.amount > 0
  /\ availableBalance(wallets[last.by]) = 0

\* C3: for every user, wallet.pendingWithdrawal equals the sum of the amounts
\* of that user's payouts whose status is pending, approved or processing.
C3_PendingIsSumOfOpenPayouts ==
  \A u \in Users :
    wallets[u].pendingWithdrawal = sumOpen(payouts, DOMAIN payouts, u)

\* C4: a payout request for an amount that canWithdraw deems eligible is
\* answered 201, creates a pending payout of that amount for the requester
\* and raises the requester's pendingWithdrawal by exactly that amount.
C4_EligibleCreateReserves ==
  [][(/\ last'.op = "postPayout"
      /\ \A today \in Days :
           canWithdraw(wallets[last'.by], last'.amount, today).result.canWithdraw)
     => (/\ last'.code = 201
         /\ last'.pid \in DOMAIN payouts' \ DOMAIN payouts
         /\ payouts'[last'.pid].status = "pending"
         /\ payouts'[last'.pid].amount = last'.amount
         /\ payouts'[last'.pid].userId = last'.by
         /\ wallets'[last'.by].pendingWithdrawal =
              wallets[last'.by].pendingWithdrawal + last'.amount)]_vars

\* C5: a cancel request by the owner of a pending payout moves the payout to
\* cancelled and lowers the owner's pendingWithdrawal by the payout amount.
C5_OwnerCancelReleases ==
  [][(/\ last'.op = "cancel"
      /\ last'.pid \in DOMAIN payouts
      /\ payouts[last'.pid].userId = last'.by
      /\ payouts[last'.pid].status = "pending")
     => (/\ payouts'[last'.pid].status = "cancelled"
         /\ wallets'[last'.by].pendingWithdrawal =
              wallets[last'.by].pendingWithdrawal
              - payouts[last'.pid].amount)]_vars

\* C6: a cancel request on a payout that is not pending is answered with an
\* error (the invalid-transition error when the owner asks) and changes
\* neither the payouts nor the wallets; a payout enters cancelled only from
\* pending.
C6_CancelOnlyFromPending ==
  [][/\ (/\ last'.op = "cancel"
         /\ last'.pid \in DOMAIN payouts
         /\ payouts[last'.pid].status # "pending")
        => (/\ last'.code \in {400, 403}
            /\ (payouts[last'.pid].userId = last'.by
                 => last'.msg = "Can only cancel pending payout requests")
            /\ payouts' = payouts
            /\ wallets' = wallets)
     /\ \A pid \in DOMAIN payouts' :
          (/\ payouts'[pid].status = "cancelled"
           /\ (pid \in DOMAIN payouts => payouts[pid].status # "cancelled"))
          => (pid \in DOMAIN payouts /\ payouts[pid].status = "pending")]_vars

\* The owner has asked to cancel a payout that is not pending and was refused.
C6_Witness ==
  /\ last.op = "cancel" /\ last.code = 400
  /\ last.msg = "Can only cancel pending payout requests"
  /\ last.pid \in DOMAIN payouts
  /\ payouts[last.pid].userId = last.by
  /\ payouts[last.pid].status # "pending"

\* C7: the request that completes a payout settles it once: it lowers the
\* owner's pendingWithdrawal by the amount, raises totalWithdrawn and
\* todayWithdrawal by the amount and sets lastWithdrawalDate; a completion
\* request on a payout that is already completed leaves the wallet alone.
C7_CompletionSettlesOnce ==
  [][(/\ last'.op = "adminStatus" /\ last'.arg = "completed"
      /\ last'.code = 200)
     => LET o == payouts[last'.pid]
            w == wallets[o.userId]
            w2 == wallets'[o.userId]
        IN IF o.status # "completed"
           THEN /\ payouts'[last'.pid].status = "completed"
                /\ w2.pendingWithdrawal = w.pendingWithdrawal - o.amount
                /\ w2.totalWithdrawn = w.totalWithdrawn + o.amount
                /\ w2.todayWithdrawal = w.todayWithdrawal + o.amount
                /\ w2.lastWithdrawalDate # Null
           ELSE w2 = w]_vars

\* The edges of the payout state machine.
PayoutEdges ==
  {<<"pending", "approved">>, <<"pending", "rejected">>,
   <<"pending", "cancelled">>, <<"approved", "processing">>,
   <<"processing", "completed">>, <<"processing", "failed">>,
   <<"failed", "processing">>}

\* C8: every status change of a payout follows an edge of the state machine.
C8_TransitionsFollowEdges ==
  [][\A pid \in DOMAIN payouts :
       payouts'[pid].status # payouts[pid].status
       => <<payouts[pid].status, payouts'[pid].status>> \in PayoutEdges]_vars

\* C9: a cancel request by a principal who does not own the payout is
\* refused with 403 and changes nothing; a status-update request by a
\* principal without the admin role changes nothing; a payout becomes
\* cancelled only on its owner's request and becomes approved or rejected
\* only on an admin's request.
C9_OwnershipAndRole ==
  [][/\ (/\ last'.op = "cancel"
         /\ last'.pid \in DOMAIN payouts
         /\ payouts[last'.pid].userId # last'.by)
        => (last'.code = 403 /\ payouts' = payouts /\ wallets' = wallets)
     /\ (last'.op = "adminStatus" /\ role(last'.by) # "admin")
        => (last'.code = 403 /\ payouts' = payouts /\ wallets' = wallets)
     /\ \A pid \in DOMAIN payouts :
          /\ (payouts'[pid].status = "cancelled"
              /\ payouts[pid].status # "cancelled")
             => (last'.op = "cancel" /\ last'.by = payouts[pid].userId)
          /\ (payouts'[pid].status \in {"approved", "rejected"}
              /\ payouts'[pid] # payouts[pid])
             => (last'.op = "adminStatus" /\ role(last'.by) = "admin")]_vars

\* A principal who does not own the payout has asked to cancel it while it
\* was pending and was refused.
C9_Witness ==
  /\ last.op = "cancel" /\ last.code = 403
  /\ last.pid \in DOMAIN payouts
  /\ payouts[last.pid].userId # last.by
  /\ payouts[last.pid].status = "pending"

\* C10: no income category of a stored wallet is negative, and no
\* deductBalance call on a stored wallet leaves a negative category in the
\* document it returns, whatever the amount and the rounding.
C10_NoNegativeCategory ==
  \A u \in Users :
    /\ \A c \in Categories(wallets[u]) : c >= 0
    /\ \A amount \in DeductAmounts :
         \A r \in deductBalance(wallets[u], amount) :
           \A c \in Categories(r.doc) : c >= 0

\* A deductBalance call whose division was not exact has been persisted and
\* has emptied one category while another stays positive.
C10_Witness ==
  /\ last.op = "deductBalance" /\ last.msg = "none" /\ last.amount > 0
  /\ wallets[last.by].directIncome = 0
  /\ wallets[last.by].levelIncome > 0

\* C11: deductBalance fails with the invalid-amount error when amount <= 0
\* and with the insufficient-balance error when amount exceeds the available
\* balance, and in both cases no wallet changes.
C11_DeductBalanceRefusals ==
  [][last'.op = "deductBalance"
     => /\ (last'.amount <= 0)
           => (last'.msg = "Amount must be positive" /\ wallets' = wallets)
        /\ (last'.amount > 0
            /\ last'.amount > availableBalance(wallets[last'.by]))
           => (last'.msg = "Insufficient balance" /\ wallets' = wallets)]_vars

\* A deductBalance call for more than the positive available balance has
\* been refused.
C11_Witness ==
  /\ last.op = "deductBalance" /\ last.msg = "Insufficient balance"
  /\ availableBalance(wallets[last.by]) > 0
  /\ last.amount > availableBalance(wallets[last.by])

\* C12: canWithdraw reports eligible exactly when amount >= minWithdrawal,
\* amount <= availableBalance and todayWithdrawal + amount <=
\* maxWithdrawalPerDay, todayWithdrawal being taken as 0 when
\* lastWithdrawalDate is not today; and a payout request that passes input
\* validation is accepted exactly when canWithdraw reports eligible.
C12_CreateActsOnEligibility ==
  [][/\ \A u \in Users, amount \in PayoutAmounts, today \in Days :
          LET w == wallets[u]
              tw == IF w.lastWithdrawalDate # today THEN 0
                    ELSE w.todayWithdrawal
          IN canWithdraw(w, amount, today).result.canWithdraw
             <=> (/\ amount >= w.minWithdrawal
                  /\ amount <= w.totalBalance - w.pendingWithdrawal
                  /\ tw + amount <= w.maxWithdrawalPerDay)
     /\ (last'.op = "postPayout" /\ validatePayoutRequest(last'.amount))
        => \A today \in Days :
             (last'.code = 201)
             <=> canWithdraw(wallets[last'.by], last'.amount, today)
                   .result.canWithdraw]_vars

\* The wallet field that holds the income of a category.
CategoryField(type) ==
  IF type = "direct" THEN "directIncome"
  ELSE IF type = "level" THEN "levelIncome"
  ELSE IF type = "roi" THEN "roiIncome"
  ELSE "bonusIncome"

CategoryFields == {"directIncome", "levelIncome", "roiIncome", "bonusIncome"}

\* C13: addIncome fails and leaves every wallet unchanged when amount <= 0
\* or the category is not direct, level, roi or bonus; otherwise it raises
\* the named category and totalBalance by amount and leaves the other three
\* categories and pendingWithdrawal as they were.
C13_AddIncomeContract ==
  [][last'.op = "addIncome"
     => LET u == last'.by
            a == last'.amount
            w == wallets[u]
            w2 == wallets'[u]
        IN /\ \A v \in Users \ {u} : wallets'[v] = wallets[v]
           /\ IF a <= 0 \/ last'.arg \notin {"direct", "level", "roi", "bonus"}
              THEN last'.msg # "none" /\ w2 = w
              ELSE /\ last'.msg = "none"
                   /\ w2[CategoryField(last'.arg)] =
                        w[CategoryField(last'.arg)] + a
                   /\ \A f \in CategoryFields \ {CategoryField(last'.arg)} :
                        w2[f] = w[f]
                   /\ w2.pendingWithdrawal = w.pendingWithdrawal
                   /\ w2.totalBalance = w.totalBalance + a]_vars

\* An addIncome call has credited the level category.
C13_Witness ==
  /\ last.op = "addIncome" /\ last.msg = "none" /\ last.arg = "level"
  /\ last.amount > 0
  /\ wallets[last.by].levelIncome >= last.amount

\* The wallets one operation can leave when it runs alone on wallet w.
applyOp(w, op) ==
  {IF r.err = "none" THEN r.doc ELSE w :
     r \in UNION {runOp(w, op, today) : today \in Days}}

\* The wallets the two operations can leave when one runs after the other.
SerialOutcomes(w, op1, op2) ==
  UNION {applyOp(x, op2) : x \in applyOp(w, op1)}
  \cup UNION {applyOp(x, op1) : x \in applyOp(w, op2)}

\* C14: when two concurrent operations on the same wallet have both ended,
\* the persisted wallet is one that some serial execution of the two
\* operations leaves.
C14_NoLostUpdate ==
  (\A p \in Procs : procs[p].pc = "done")
  => wallets[ConcUser] \in
       SerialOutcomes(ConcStartWallet, procs["p1"].op, procs["p2"].op)

\* C15: a transaction whose status is completed stays completed and a
\* transaction whose status is failed stays failed, whatever status-update
\* request arrives.
C15_TerminalStatusesAreFinal ==
  [][\A tid \in DOMAIN transactions :
       /\ transactions[tid].status = "completed"
          => transactions'[tid].status = "completed"
       /\ transactions[tid].status = "failed"
          => transactions'[tid].status = "failed"]_vars

\* C16: a completion request that is accepted for a transaction that is
\* already completed, through either status-update endpoint, leaves every
\* wallet as it was.
C16_SecondCompletionKeepsWallets ==
  [][(/\ last'.op \in {"txStatus", "adminTxStatus"}
      /\ last'.arg = "completed" /\ last'.code = 200
      /\ last'.was = "completed")
     => wallets' = wallets]_vars

\* markCompleted has run through the admin endpoint on a transaction that
\* was already completed.
C16_Witness ==
  /\ last.op = "adminTxStatus" /\ last.arg = "completed" /\ last.code = 200
  /\ last.was = "completed"
  /\ transactions[last.pid].status = "completed"
  /\ transactions[last.pid].processedBy = Admin

RECURSIVE AncestorAt(_, _, _)
AncestorAt(us, id, L) ==
  IF L = 0 THEN id
  ELSE IF id \notin DOMAIN us \/ us[id].sponsorId = NoUser THEN NoUser
  ELSE AncestorAt(us, us[id].sponsorId, L - 1)

\* The users above user id in the sponsor chain of us.
AncestorsOf(us, id) ==
  {AncestorAt(us, id, L) : L \in 1..NumUsers} \ {NoUser}

\* C18: a successful plan purchase by user D credits, for every level L the
\* plan configures, amount * percentage(L) / 100 to the level income of the
\* user L places above D, records one level_income transaction per credited
\* user that references D and L, and leaves the level income of every other
\* user as it was; a purchase by a user with a shorter chain succeeds.
C18_CommissionsDistributed ==
  [][(/\ last'.op = "purchase"
      /\ last'.pid \in DOMAIN plans
      /\ plans[last'.pid].isActive
      /\ users[last'.by].currentPlan = NoPlan)
     => LET D == last'.by
            plan == plans[last'.pid]
            depth == Len(plan.levelCommissions)
            credited == {AncestorAt(users, D, L) : L \in 1..depth} \ {NoUser}
        IN /\ last'.code = 200
           /\ \A L \in 1..depth :
                LET a == AncestorAt(users, D, L)
                    share == (plan.amount * getCommissionForLevel(plan, L))
                               \div 100
                IN a # NoUser
                   => /\ wallets'[a].levelIncome = wallets[a].levelIncome + share
                      /\ \E tid \in DOMAIN transactions' \ DOMAIN transactions :
                           /\ transactions'[tid].type = "level_income"
                           /\ transactions'[tid].userId = a
                           /\ transactions'[tid].relatedUserId = D
                           /\ transactions'[tid].level = L
                           /\ transactions'[tid].amount = share
           /\ \A v \in DOMAIN wallets \ credited :
                wallets'[v].levelIncome = wallets[v].levelIncome]_vars

\* The value a counter of user id has in us: 0 for a user that is not there.
CounterOf(us, id, field) == IF id \in DOMAIN us THEN us[id][field] ELSE 0

\* C19: in every step in which a user gains a sponsor, directReferrals of
\* that sponsor and totalTeamSize of every user above the new member in the
\* sponsor chain are one more than before the step.
C19_CountersFollowSponsorLinks ==
  [][\A u \in DOMAIN users' :
       LET s == users'[u].sponsorId IN
         (/\ s # NoUser
          /\ (u \notin DOMAIN users \/ users[u].sponsorId # s))
         => /\ s \in DOMAIN users'
            /\ users'[s].directReferrals =
                 CounterOf(users, s, "directReferrals") + 1
            /\ \A a \in AncestorsOf(users', u) :
                 users'[a].totalTeamSize =
                   CounterOf(users, a, "totalTeamSize") + 1]_vars

\* The levels of a levelCommissions list, as a set.
LevelsOf(lc) == {lc[i].level : i \in DOMAIN lc}

\* The levels of the list are 1..N with no gap and no duplicate.
Sequential(lc) == LevelsOf(lc) = 1..Len(lc)

\* C20: a plan save is accepted exactly when the levels of its
\* levelCommissions are 1..N with no gap and no duplicate; a rejected save
\* ends with an error and leaves the stored plans as they were; an accepted
\* one stores the entries of the request in ascending level order.
C20_SequentialLevelsOnSave ==
  [][(/\ last'.op \in {"postPlan", "putPlan"}
      /\ requireAdmin(last'.by)
      /\ last'.op = "postPlan"
           => validatePlanCreation(SeedPlanAmount, last'.arg)
      /\ last'.op = "putPlan" => last'.pid \in DOMAIN plans)
     => IF Sequential(last'.arg)
        THEN /\ last'.code \in {200, 201}
             /\ last'.pid \in DOMAIN plans'
             /\ LET stored == plans'[last'.pid].levelCommissions IN
                  /\ \A i \in DOMAIN stored : stored[i].level = i
                  /\ Len(stored) = Len(last'.arg)
                  /\ {stored[i] : i \in DOMAIN stored} =
                       {last'.arg[i] : i \in DOMAIN last'.arg}
        ELSE /\ last'.code >= 400
             /\ last'.msg # "none"
             /\ plans' = plans]_vars

\* A plan whose levels were given as 2, 1 has been accepted and is stored
\* in the order 1, 2.
C20_Witness ==
  /\ last.op = "postPlan" /\ last.code = 201
  /\ Len(last.arg) = 2
  /\ last.arg[1].level = 2 /\ last.arg[2].level = 1
  /\ plans[last.pid].levelCommissions[1].level = 1
  /\ plans[last.pid].levelCommissions[2].level = 2

\* C22: every step that takes a payout from another status into failed
\* raises its retryCount by exactly one and sets lastRetryAt.
C22_FailedCountsRetry ==
  [][\A pid \in DOMAIN payouts :
       (pid \in DOMAIN payouts' /\ payouts[pid].status # "failed"
        /\ payouts'[pid].status = "failed")
       => /\ payouts'[pid].retryCount = payouts[pid].retryCount + 1
          /\ payouts'[pid].lastRetryAt = Timestamp]_vars

\* Sum of the amounts of the payouts of user u that were requested on day d
\* and completed on the modelled day.
RECURSIVE sumCompletedOn(_, _, _, _)
sumCompletedOn(ps, ids, u, d) ==
  IF ids = {} THEN 0
  ELSE LET i == CHOOSE x \in ids : TRUE
       IN  (IF /\ ps[i].userId = u /\ ps[i].requestedAt = d
               /\ ps[i].status = "completed" /\ ps[i].completedAt = Timestamp
            THEN ps[i].amount ELSE 0) + sumCompletedOn(ps, ids \ {i}, u, d)

\* C24: for every wallet, the amounts of its user's payouts requested and
\* completed on the modelled day add up to at most maxWithdrawalPerDay.
C24_DailyCap ==
  \A u \in DOMAIN wallets :
    sumCompletedOn(payouts, DOMAIN payouts, u, Today)
      <= wallets[u].maxWithdrawalPerDay

\* C30: an accepted approval or rejection of a payout leaves the payout with
\* processedAt set and processedBy naming the admin, a rejection also with a
\* rejection reason, and leaves every wallet as it was.
C30_ApproveRejectFrame ==
  [][(/\ last'.op = "adminStatus" /\ last'.code = 200
      /\ last'.arg \in {"approved", "rejected"})
     => /\ payouts'[last'.pid].status = last'.arg
        /\ payouts'[last'.pid].processedAt = Timestamp
        /\ payouts'[last'.pid].processedBy = last'.by
        /\ last'.arg = "rejected"
             => payouts'[last'.pid].rejectionReason \notin {Null, ""}
        /\ wallets' = wallets]_vars

\* A seeded pending payout has been approved by the admin while another
\* payout of the same user has been rejected.
C30_Witness ==
  /\ last.op = "adminStatus" /\ last.code = 200 /\ last.arg = "approved"
  /\ payouts[last.pid].status = "approved"
  /\ \E other \in DOMAIN payouts :
       /\ other # last.pid
       /\ payouts[other].status = "rejected"
       /\ payouts[other].processedBy = Admin

\* The categories of wallet w that hold a part, but not all, of its income:
\* the ones whose share of a deduction is rounded.
SplitFields(w) ==
  {f \in CategoryFields : w[f] > 0 /\ w[f] < totalIncome(w)}

RECURSIVE sumAmounts(_, _)
sumAmounts(ps, ids) ==
  IF ids = {} THEN 0
  ELSE LET i == CHOOSE x \in ids : TRUE
       IN  ps[i].amount + sumAmounts(ps, ids \ {i})

C21_PurchaseOnlyWhenPurchasable ==
  \A p \in BuyProcs :
    /\ procs[p].code = 200 => isPurchasable(plans[procs[p].pid])
    /\ (procs[p].pid \in DOMAIN plans /\ ~isPurchasable(plans[procs[p].pid]))
       => procs[p].pc \notin {"saved"} /\ procs[p].code # 200

\* The completed plan_purchase transactions of user u.
PurchasesOf(u) ==
  {t \in DOMAIN transactions :
     /\ transactions[t].userId = u
     /\ transactions[t].type = "plan_purchase"
     /\ transactions[t].status = "completed"}

C28_OnlineIffConnected ==
  \A u \in Users :
    isUserOnline(u)
      <=> \E sid \in DOMAIN sockets :
            sockets[sid].isAuthenticated /\ sockets[sid].userId = u

\* C29: once stopPriceUpdates has returned, no timer of the service calls
\* updatePrices until startPriceUpdates is called again: with the service
\* stopped (no interval handle held) no step is a timer's call of
\* updatePrices.
C29_NoUpdateAfterStop ==
  [][(cryptoService.updateInterval = 0 /\ last'.op = "updatePrices")
     => FALSE]_vars

\* C27: whenever the stored loginAttempts of an account has reached the
\* threshold of five, the account has a lockUntil set.
C27_ThresholdMeansLocked ==
  \A u \in DOMAIN users :
    users[u].loginAttempts >= LockThreshold => users[u].lockUntil # NoDate

====
